---------------------------- MODULE Spec2Model ----------------------------
(***************************************************************************)
(* tryState (src/src/index.ts): an async wrapper that runs a producer fn   *)
(* once and turns its outcome into the tuple [data, error, metadata].      *)
(*                                                                         *)
(* JavaScript values are tagged records.  Strings are sequences of         *)
(* one-character strings, so that split, trim and the regular expression   *)
(* of the catch block are computed character by character.  The event loop *)
(* is single-threaded: `running` is the call whose synchronous segment     *)
(* holds the thread (0 when the loop is idle), and an async function       *)
(* gives the thread back only at its await or when it returns.             *)
(***************************************************************************)
EXTENDS Integers, Sequences, FiniteSets

\* ------------------------------------------------------------- bounds
NumCalls == 2          \* tryState calls that may be in flight at once
MaxClock == 1          \* Date.now() readings are 0..MaxClock
MaxTraceLen == 6       \* longest stack text of the single-call specification

Calls == 1..NumCalls

\* ------------------------------------------------------ JavaScript values
Undefined == [t |-> "undefined"]
Null == [t |-> "null"]
Str(s) == [t |-> "string", s |-> s]
Num(n) == [t |-> "number", n |-> n]
Obj(props) == [t |-> "object", props |-> props]
\* new Error(message) as the runtime left it: stack is a string or undefined
ErrorObj(message, stack) == [t |-> "Error", message |-> message, stack |-> stack]
\* the TypeError the engine raises for a property read of null or undefined
TypeError == [t |-> "TypeError"]

IsNullish(v) == v.t \in {"undefined", "null"}

\* v.name for a value that is not null or undefined (a primitive has no own
\* message or stack, so the read gives undefined)
GetProp(v, name) ==
    IF v.t = "Error"
    THEN (IF name = "message" THEN v.message ELSE v.stack)
    ELSE Undefined

\* JavaScript truthiness of the values the model holds
Truthy(v) ==
    CASE v.t = "undefined" -> FALSE
      [] v.t = "null" -> FALSE
      [] v.t = "string" -> v.s # <<>>
      [] v.t = "number" -> v.n # 0
      [] OTHER -> TRUE

\* a || b
OrElse(a, b) == IF Truthy(a) THEN a ELSE b

\* ------------------------------------------------------------ strings
NL == "\n"
WhiteSpace == {" ", "\t", "\n", "\r"}
IsSpace(ch) == ch \in WhiteSpace

\* 'Localização não encontrada' (location not found), the literal of line 79
LocationNotFound ==
    << "L", "o", "c", "a", "l", "i", "z", "a", "ç", "ã", "o", " ",
       "n", "ã", "o", " ",
       "e", "n", "c", "o", "n", "t", "r", "a", "d", "a" >>
\* 'unknown', the literal of line 81
Unknown == << "u", "n", "k", "n", "o", "w", "n" >>

\* String.prototype.split('\n'): the pieces between the separators; a text
\* with no separator (the empty text too) is one piece
RECURSIVE Split(_)
Split(s) ==
    IF \E i \in 1..Len(s) : s[i] = NL
    THEN LET i == CHOOSE k \in 1..Len(s) :
                     s[k] = NL /\ \A j \in 1..(k - 1) : s[j] # NL
         IN  <<SubSeq(s, 1, i - 1)>> \o Split(SubSeq(s, i + 1, Len(s)))
    ELSE <<s>>

\* String.prototype.trim(): white space removed at both ends
RECURSIVE TrimStart(_)
TrimStart(s) ==
    IF s # <<>> /\ IsSpace(Head(s)) THEN TrimStart(Tail(s)) ELSE s

RECURSIVE TrimEnd(_)
TrimEnd(s) ==
    IF s # <<>> /\ IsSpace(s[Len(s)])
    THEN TrimEnd(SubSeq(s, 1, Len(s) - 1))
    ELSE s

Trim(s) == TrimEnd(TrimStart(s))

\* \S+ from position i on: the longest run of characters that are not white space
RECURSIVE NonSpaceRun(_, _)
NonSpaceRun(s, i) ==
    IF i <= Len(s) /\ ~IsSpace(s[i])
    THEN <<s[i]>> \o NonSpaceRun(s, i + 1)
    ELSE <<>>

\* whether /at (\S+)/ matches with its 'a' at position i
MatchesAt(s, i) ==
    /\ i + 3 <= Len(s)
    /\ s[i] = "a"
    /\ s[i + 1] = "t"
    /\ s[i + 2] = " "
    /\ ~IsSpace(s[i + 3])

\* relevantLine.match(/at (\S+)/): the capture group of the leftmost match,
\* or null when the text does not match
MatchAt(s) ==
    IF \E i \in 1..Len(s) : MatchesAt(s, i)
    THEN LET i == CHOOSE k \in 1..Len(s) :
                     MatchesAt(s, k) /\ \A j \in 1..(k - 1) : ~MatchesAt(s, j)
         IN  Str(NonSpaceRun(s, i + 3))
    ELSE Null

\* new Date(ms).toISOString(): the text that denotes the instant ms
ToISOString(ms) == [t |-> "string", iso |-> ms]

\* --------------------------------------------- the catch block, lines 77-89
\* const stack = (error as Error).stack || ''
StackOf(error) == OrElse(GetProp(error, "stack"), Str(<<>>)).s

\* RelevantLine with the first line (index 0) taken for the second
RelevantLineFirst(stack) ==
    LET stackLines == Split(stack)
        first == IF Len(stackLines) >= 1 THEN Str(Trim(stackLines[1])) ELSE Undefined
    IN  OrElse(first, Str(LocationNotFound)).s

\* const relevantLine = stackLines[1]?.trim() || 'Localização não encontrada'
RelevantLine(stack) ==
    LET stackLines == Split(stack)
        second == IF Len(stackLines) >= 2 THEN Str(Trim(stackLines[2])) ELSE Undefined
    IN  OrElse(second, Str(LocationNotFound)).s

\* const functionName = functionNameMatch ? functionNameMatch[1] : 'unknown'
FunctionName(relevantLine) ==
    LET functionNameMatch == MatchAt(relevantLine)
    IN  IF Truthy(functionNameMatch) THEN functionNameMatch.s ELSE Unknown

FixedKeys == {"message", "stack", "function", "location"}

\* the own enumerable properties that ...additionalContext spreads
SpreadOf(additionalContext) ==
    IF additionalContext.t = "object" THEN additionalContext.props ELSE <<>>

\* ErrorDetails with the spread written first, so that the fixed fields win
ErrorDetailsSpreadFirst(error, additionalContext) ==
    LET stack == StackOf(error)
        relevantLine == RelevantLine(stack)
        fixed == [k \in FixedKeys |->
                    CASE k = "message" -> GetProp(error, "message")
                      [] k = "stack" -> Str(stack)
                      [] k = "function" -> Str(FunctionName(relevantLine))
                      [] k = "location" -> Str(relevantLine)]
        extra == SpreadOf(additionalContext)
    IN  Obj([k \in FixedKeys \cup DOMAIN extra |->
                IF k \in FixedKeys THEN fixed[k] ELSE extra[k]])

\* { message, stack, function, location, ...additionalContext }: a later
\* property of the literal replaces an earlier one of the same name
ErrorDetails(error, additionalContext) ==
    LET stack == StackOf(error)
        relevantLine == RelevantLine(stack)
        fixed == [k \in FixedKeys |->
                    CASE k = "message" -> GetProp(error, "message")
                      [] k = "stack" -> Str(stack)
                      [] k = "function" -> Str(FunctionName(relevantLine))
                      [] k = "location" -> Str(relevantLine)]
        extra == SpreadOf(additionalContext)
    IN  Obj([k \in FixedKeys \cup DOMAIN extra |->
                IF k \in DOMAIN extra THEN extra[k] ELSE fixed[k]])

Metadata(executionTimeMs, timestamp) ==
    [executionTimeMs |-> executionTimeMs, timestamp |-> timestamp]

\* SuccessTuple with the optional third element left out
SuccessTupleNoMetadata(result, executionTimeMs, timestamp) ==
    <<result, Null, Undefined>>

\* return [result, null, { executionTimeMs, timestamp }]
SuccessTuple(result, executionTimeMs, timestamp) ==
    <<result, Null, Metadata(executionTimeMs, timestamp)>>

\* FailureTuple with null returned in place of the fallback
FailureTupleNoFallback(initialValue, errorDetails, executionTimeMs, timestamp) ==
    <<Null, errorDetails, Metadata(executionTimeMs, timestamp)>>

\* return [initialValue, errorDetails, { executionTimeMs, timestamp }]
FailureTuple(initialValue, errorDetails, executionTimeMs, timestamp) ==
    <<initialValue, errorDetails, Metadata(executionTimeMs, timestamp)>>

\* ------------------------------------------------------------- producers
\* fn: what the call of fn does.  "resolve": returns a promise that fulfils
\* with value; "reject": returns a promise that rejects with value; "throw":
\* throws value before returning a promise.
Producer(mode, value) == [mode |-> mode, value |-> value]
NoProducer == Producer("none", Undefined)
FailModes == {"reject", "throw"}

Pending == [state |-> "pending"]
Fulfilled(v) == [state |-> "fulfilled", value |-> v]
Rejected(r) == [state |-> "rejected", reason |-> r]
NoPromise == [state |-> "none"]

VARIABLES
    now,                \* the system clock that Date.now() reads
    running,            \* the call whose synchronous segment runs, or 0
    pc,                 \* each call's position in tryState
    fn,                 \* the arguments of each call
    initialValue,
    additionalContext,
    start,              \* const start, line 64
    timestamp,          \* const timestamp, line 65
    awaited,            \* the promise fn returned, awaited at line 68
    error,              \* the catch binding, line 75
    endMark,            \* the Date.now() reading of line 69 or 76
    invocations,        \* how many times the call has invoked fn
    path,               \* the branches that executed, of "success", "failure"
    ret                 \* the promise tryState returned to its caller

vars == <<now, running, pc, fn, initialValue, additionalContext, start,
          timestamp, awaited, error, endMark, invocations, path, ret>>

\* ------------------------------------------------------------------ inputs
\* the stack of an Error thrown one frame deep: "E", then " at f x"
SampleTrace == << "E", NL, " ", "a", "t", " ", "f", " ", "x" >>
Message == Str(<< "m" >>)

\* Inputs of the calls in flight together: each call has a result, a
\* fallback and a context of its own; its producer resolves, or fails with
\* an Error or with null.
Thrown == { ErrorObj(Message, Str(SampleTrace)), Null }
Producers(c) ==
    {Producer("resolve", Num(c))}
        \cup {Producer(m, e) : m \in FailModes, e \in Thrown}
Fallbacks(c) == {Num(0 - c)}
Contexts(c) == {Obj([taskId |-> Num(c)])}
Input(f, iv, ctx) == [fn |-> f, initialValue |-> iv, additionalContext |-> ctx]
Inputs(c) ==
    {Input(f, iv, ctx) : f \in Producers(c), iv \in Fallbacks(c), ctx \in Contexts(c)}

\* Inputs of the call that runs alone: every stack text up to MaxTraceLen
\* over the characters of the pattern, and every context over the fixed
\* field names and taskId.
RECURSIVE SeqsUpTo(_, _)
SeqsUpTo(S, n) ==
    IF n = 0
    THEN {<<>>}
    ELSE LET shorter == SeqsUpTo(S, n - 1)
         IN  shorter \cup {Append(s, x) : s \in shorter, x \in S}

TraceAlphabet == {"a", "t", " ", NL}
Traces == SeqsUpTo(TraceAlphabet, MaxTraceLen)

ThrownAlone ==
    { ErrorObj(Message, Str(SampleTrace)), ErrorObj(Message, Undefined),
      ErrorObj(Message, Str(<<>>)), Str(<< "m" >>), Null, Undefined }

ContextKeys == FixedKeys \cup {"taskId"}
ContextValues == {Num(42), Undefined}
ContextsAlone ==
    {Undefined}
        \cup UNION {{Obj(f) : f \in [K -> ContextValues]} : K \in SUBSET ContextKeys}

InputsAlone ==
    {Input(Producer(m, ErrorObj(Message, Str(s))), Num(0), Undefined) :
        m \in FailModes, s \in Traces}
    \cup
    {Input(f, iv, ctx) :
        f \in {Producer("resolve", Num(7))}
                 \cup {Producer(m, e) : m \in FailModes, e \in ThrownAlone},
        iv \in {Num(0), Undefined},
        ctx \in ContextsAlone}

\* ------------------------------------------------------------------- Init
Init ==
    /\ now = 0
    /\ running = 0
    /\ pc = [c \in Calls |-> "idle"]
    /\ fn = [c \in Calls |-> NoProducer]
    /\ initialValue = [c \in Calls |-> Undefined]
    /\ additionalContext = [c \in Calls |-> Undefined]
    /\ start = [c \in Calls |-> 0]
    /\ timestamp = [c \in Calls |-> Undefined]
    /\ awaited = [c \in Calls |-> NoPromise]
    /\ error = [c \in Calls |-> Undefined]
    /\ endMark = [c \in Calls |-> 0]
    /\ invocations = [c \in Calls |-> 0]
    /\ path = [c \in Calls |-> {}]
    /\ ret = [c \in Calls |-> NoPromise]

\* ---------------------------------------------------------------- actions
\* The caller calls tryState(f, iv, ctx) and holds the promise it returns;
\* the body runs lines 64 and 65.  The two readings of the clock are
\* consecutive statements and read the same `now` here.
TryStateCall(c, f, iv, ctx) ==
    /\ running = 0
    /\ pc[c] = "idle"
    /\ fn' = [fn EXCEPT ![c] = f]
    /\ initialValue' = [initialValue EXCEPT ![c] = iv]
    /\ additionalContext' = [additionalContext EXCEPT ![c] = ctx]
    /\ start' = [start EXCEPT ![c] = now]
    /\ timestamp' = [timestamp EXCEPT ![c] = ToISOString(now)]
    /\ ret' = [ret EXCEPT ![c] = Pending]
    /\ pc' = [pc EXCEPT ![c] = "L68"]
    /\ running' = c
    /\ UNCHANGED <<now, awaited, error, endMark, invocations, path>>

\* line 68, fn(): a synchronous throw enters the catch block in the same
\* segment; otherwise the call awaits the promise and gives the thread back
InvokeFn(c) ==
    /\ running = c
    /\ pc[c] = "L68"
    /\ invocations' = [invocations EXCEPT ![c] = @ + 1]
    /\ IF fn[c].mode = "throw"
       THEN /\ error' = [error EXCEPT ![c] = fn[c].value]
            /\ pc' = [pc EXCEPT ![c] = "catch"]
            /\ UNCHANGED <<awaited, running>>
       ELSE /\ awaited' = [awaited EXCEPT ![c] = Pending]
            /\ pc' = [pc EXCEPT ![c] = "await"]
            /\ running' = 0
            /\ UNCHANGED error
    /\ UNCHANGED <<now, fn, initialValue, additionalContext, start, timestamp,
                   endMark, path, ret>>

\* the producer's promise settles, in a task of its own; nothing obliges it to
ProducerSettles(c) ==
    /\ running = 0
    /\ awaited[c] = Pending
    /\ awaited' = [awaited EXCEPT ![c] =
                      IF fn[c].mode = "resolve"
                      THEN Fulfilled(fn[c].value)
                      ELSE Rejected(fn[c].value)]
    /\ UNCHANGED <<now, running, pc, fn, initialValue, additionalContext,
                   start, timestamp, error, endMark, invocations, path, ret>>

\* lines 68-74: the continuation of a fulfilled promise, the success path
ResumeFulfilled(c) ==
    /\ running = 0
    /\ pc[c] = "await"
    /\ awaited[c].state = "fulfilled"
    /\ LET result == awaited[c].value
           executionTimeMs == now - start[c]
       IN  ret' = [ret EXCEPT ![c] =
                      Fulfilled(SuccessTuple(result, executionTimeMs, timestamp[c]))]
    /\ endMark' = [endMark EXCEPT ![c] = now]
    /\ path' = [path EXCEPT ![c] = @ \cup {"success"}]
    /\ pc' = [pc EXCEPT ![c] = "done"]
    /\ UNCHANGED <<now, running, fn, initialValue, additionalContext, start,
                   timestamp, awaited, error, invocations>>

\* line 68, await: a rejected promise throws its reason into the catch block
ResumeRejected(c) ==
    /\ running = 0
    /\ pc[c] = "await"
    /\ awaited[c].state = "rejected"
    /\ error' = [error EXCEPT ![c] = awaited[c].reason]
    /\ pc' = [pc EXCEPT ![c] = "catch"]
    /\ running' = c
    /\ UNCHANGED <<now, fn, initialValue, additionalContext, start, timestamp,
                   awaited, endMark, invocations, path, ret>>

\* CatchResult with the fallback kept in one slot that all calls share
CatchResultSharedFallback(e, iv, ctx, executionTimeMs, ts) ==
    IF IsNullish(e)
    THEN Rejected(TypeError)
    ELSE Fulfilled(FailureTuple(initialValue[1], ErrorDetails(e, ctx),
                                executionTimeMs, ts))

\* lines 77-95: how the catch block settles the promise tryState returned.
\* Line 77 reads error.stack: of null or undefined that read raises a
\* TypeError, which no handler encloses, so the promise rejects with it.
CatchResult(e, iv, ctx, executionTimeMs, ts) ==
    IF IsNullish(e)
    THEN Rejected(TypeError)
    ELSE Fulfilled(FailureTuple(iv, ErrorDetails(e, ctx), executionTimeMs, ts))

\* CatchBlock that calls the producer again in place of returning
CatchBlockRetry(c) ==
    /\ running = c
    /\ pc[c] = "catch"
    /\ invocations[c] < 2
    /\ pc' = [pc EXCEPT ![c] = "L68"]
    /\ UNCHANGED <<now, running, fn, initialValue, additionalContext, start,
                   timestamp, awaited, error, endMark, invocations, path, ret>>

\* lines 76-95: the failure path
CatchBlock(c) ==
    /\ running = c
    /\ pc[c] = "catch"
    /\ LET executionTimeMs == now - start[c]
       IN  ret' = [ret EXCEPT ![c] =
                      CatchResult(error[c], initialValue[c], additionalContext[c],
                                  executionTimeMs, timestamp[c])]
    /\ endMark' = [endMark EXCEPT ![c] = now]
    /\ path' = [path EXCEPT ![c] = @ \cup {"failure"}]
    /\ pc' = [pc EXCEPT ![c] = "done"]
    /\ running' = 0
    /\ UNCHANGED <<now, fn, initialValue, additionalContext, start, timestamp,
                   awaited, error, invocations>>

\* Date.now() reads the system's wall clock: it advances ...
Tick ==
    /\ now < MaxClock
    /\ now' = now + 1
    /\ UNCHANGED <<running, pc, fn, initialValue, additionalContext, start,
                   timestamp, awaited, error, endMark, invocations, path, ret>>

\* ... and the system may set it back (a time synchronisation step, a
\* change of the date by hand)
ClockSetBack ==
    /\ now > 0
    /\ now' \in 0..(now - 1)
    /\ UNCHANGED <<running, pc, fn, initialValue, additionalContext, start,
                   timestamp, awaited, error, endMark, invocations, path, ret>>

\* a caller calls tryState with one of the inputs, when the thread is free
Caller(c, inputs) ==
    /\ running = 0
    /\ pc[c] = "idle"
    /\ \E i \in inputs :
          TryStateCall(c, i.fn, i.initialValue, i.additionalContext)

\* NumCalls calls in flight together
Next ==
    \/ \E c \in Calls : Caller(c, Inputs(c))
    \/ \E c \in Calls : InvokeFn(c)
    \/ \E c \in Calls : ProducerSettles(c)
    \/ \E c \in Calls : ResumeFulfilled(c)
    \/ \E c \in Calls : ResumeRejected(c)
    \/ \E c \in Calls : CatchBlock(c)
    \/ Tick
    \/ ClockSetBack

Spec == Init /\ [][Next]_vars

\* one call, alone, over the wide inputs
NextAlone ==
    \/ Caller(1, InputsAlone)
    \/ InvokeFn(1)
    \/ ProducerSettles(1)
    \/ ResumeFulfilled(1)
    \/ ResumeRejected(1)
    \/ CatchBlock(1)
    \/ Tick
    \/ ClockSetBack

SpecAlone == Init /\ [][NextAlone]_vars

\* ------------------------------------------------------- reading a result
Settled(p) == p.state \in {"fulfilled", "rejected"}
\* the call has returned a tuple to its caller
Returned(c) == ret[c].state = "fulfilled"
TupleOf(c) == ret[c].value
Failing(c) == fn[c].mode \in FailModes
HasMetadata(tuple) ==
    /\ Len(tuple) = 3
    /\ DOMAIN tuple[3] = {"executionTimeMs", "timestamp"}
\* the names the caller's context holds
KeysOf(ctx) == IF ctx.t = "object" THEN DOMAIN ctx.props ELSE {}

\* ---------------------------------------------------------------------- C1
\* C1: tryState never raises to its caller: whatever the producer does and
\* whatever it throws or rejects with, the promise tryState returned never
\* rejects.
NeverRaises == \A c \in Calls : ret[c].state # "rejected"

\* ---------------------------------------------------------------------- C2
\* C2: when the producer resolved to v, the call returned [v, null, metadata]
\* with the metadata present, whatever the fallback and the context.
SuccessShape ==
    \A c \in Calls :
        (pc[c] = "done" /\ fn[c].mode = "resolve") =>
            /\ Returned(c)
            /\ TupleOf(c)[1] = fn[c].value
            /\ TupleOf(c)[2] = Null
            /\ HasMetadata(TupleOf(c))

\* a success returned with a fallback other than the result and a context
\* that names a fixed field
SuccessShapeWitness ==
    \E c \in Calls :
        /\ pc[c] = "done"
        /\ fn[c].mode = "resolve"
        /\ Returned(c)
        /\ initialValue[c] # fn[c].value
        /\ "message" \in KeysOf(additionalContext[c])

\* ---------------------------------------------------------------------- C3
\* C3: when the producer failed with an Error of message m, by a synchronous
\* throw or by a rejection, the call returned [fallback, err, metadata] with
\* the fallback as passed in, err an object with err.message = m (the
\* context holding no message of its own) and the metadata present; and two
\* calls that failed with the same Error, one synchronously and one
\* asynchronously, got the same fixed fields in err.
FailureShape ==
    /\ \A c \in Calls :
          ( /\ pc[c] = "done"
            /\ Failing(c)
            /\ fn[c].value.t = "Error"
            /\ "message" \notin KeysOf(additionalContext[c]) ) =>
              /\ Returned(c)
              /\ TupleOf(c)[1] = initialValue[c]
              /\ TupleOf(c)[2].t = "object"
              /\ TupleOf(c)[2].props["message"] = fn[c].value.message
              /\ HasMetadata(TupleOf(c))
    /\ \A c, d \in Calls :
          ( /\ pc[c] = "done" /\ pc[d] = "done"
            /\ fn[c].mode = "throw" /\ fn[d].mode = "reject"
            /\ fn[c].value = fn[d].value
            /\ fn[c].value.t = "Error" ) =>
              /\ Returned(c) /\ Returned(d)
              /\ \A k \in FixedKeys \ (KeysOf(additionalContext[c])
                                          \cup KeysOf(additionalContext[d])) :
                    TupleOf(c)[2].props[k] = TupleOf(d)[2].props[k]

\* the same Error thrown synchronously in one call and rejected in another,
\* both returned
FailureShapeWitness ==
    \E c, d \in Calls :
        /\ fn[c].mode = "throw" /\ fn[d].mode = "reject"
        /\ fn[c].value = fn[d].value
        /\ fn[c].value.t = "Error"
        /\ Returned(c) /\ Returned(d)
        /\ TupleOf(c)[1] # TupleOf(d)[1]

\* ---------------------------------------------------------------------- C4
\* C4: in a returned failure tuple, err holds every key of the context with
\* the context's value, a fixed field included; every fixed field that the
\* context does not name holds the value derived from the thrown value; and
\* err has no other key (the four fixed fields alone when there is no
\* context).
ContextMerge ==
    \A c \in Calls :
        (pc[c] = "done" /\ Failing(c) /\ Returned(c)) =>
            LET err == TupleOf(c)[2].props
                ctx == additionalContext[c]
                e == fn[c].value
            IN  /\ DOMAIN err = FixedKeys \cup KeysOf(ctx)
                /\ \A k \in KeysOf(ctx) : err[k] = ctx.props[k]
                /\ "message" \notin KeysOf(ctx) =>
                       err["message"] = (IF e.t = "Error" THEN e.message ELSE Undefined)
                /\ "stack" \notin KeysOf(ctx) =>
                       err["stack"] = Str(StackOf(e))
                /\ "location" \notin KeysOf(ctx) =>
                       err["location"] = Str(RelevantLine(StackOf(e)))
                /\ "function" \notin KeysOf(ctx) =>
                       err["function"] = Str(FunctionName(RelevantLine(StackOf(e))))

\* a failure returned with a context that names the fixed field message and
\* the free field taskId, and leaves location to the diagnostic
ContextMergeWitness ==
    \E c \in Calls :
        /\ pc[c] = "done" /\ Failing(c) /\ Returned(c)
        /\ fn[c].value.t = "Error"
        /\ {"message", "taskId"} \subseteq KeysOf(additionalContext[c])
        /\ "location" \notin KeysOf(additionalContext[c])
        /\ TupleOf(c)[2].props["message"] = Num(42)

\* ---------------------------------------------------------------------- C5
\* the failure condition carries no trace text: it has no stack, or an
\* empty one
NoTrace(e) == IsNullish(e) \/ GetProp(e, "stack") \in {Undefined, Str(<<>>)}

\* C5: when the failure condition carries no trace text, the call still
\* returned a failure tuple, with err.location the 'location not found'
\* sentinel and err.function 'unknown' (the context naming neither).
NoTraceDegradation ==
    \A c \in Calls :
        ( /\ pc[c] = "done"
          /\ Failing(c)
          /\ NoTrace(fn[c].value)
          /\ KeysOf(additionalContext[c]) \cap {"location", "function"} = {} ) =>
            /\ Returned(c)
            /\ TupleOf(c)[2].props["location"] = Str(LocationNotFound)
            /\ TupleOf(c)[2].props["function"] = Str(Unknown)

\* ---------------------------------------------------------------------- C6
\* C6: with several calls in flight, every finished call holds the outcome
\* that its own producer, fallback, context and clock readings determine:
\* its value is its own result or fallback, its err carries its own taskId,
\* its metadata its own start mark.
ConcurrentIndependence ==
    \A c \in Calls :
        pc[c] = "done" =>
            LET meta == Metadata(endMark[c] - start[c], ToISOString(start[c]))
                e == fn[c].value
            IN  CASE fn[c].mode = "resolve" ->
                       ret[c] = Fulfilled(<<Num(c), Null, meta>>)
                  [] IsNullish(e) ->
                       ret[c] = Rejected(TypeError)
                  [] OTHER ->
                       /\ Returned(c)
                       /\ TupleOf(c)[1] = Num(0 - c)
                       /\ TupleOf(c)[2] =
                              ErrorDetails(e, Obj([taskId |-> Num(c)]))
                       /\ TupleOf(c)[2].props["taskId"] = Num(c)
                       /\ TupleOf(c)[3] = meta

\* a call returned its failure tuple while another call, begun at another
\* clock reading, was still awaiting its producer
ConcurrentIndependenceWitness ==
    \E c, d \in Calls :
        /\ c # d
        /\ pc[c] = "done" /\ Returned(c) /\ path[c] = {"failure"}
        /\ pc[d] = "await"
        /\ start[c] # start[d]

\* ---------------------------------------------------------------------- C7
\* C7: in every returned tuple metadata.executionTimeMs is the clock reading
\* taken when the outcome was known minus the reading taken before the
\* producer was invoked, and it is not negative.
ElapsedTime ==
    \A c \in Calls :
        Returned(c) =>
            /\ TupleOf(c)[3].executionTimeMs = endMark[c] - start[c]
            /\ TupleOf(c)[3].executionTimeMs >= 0

\* ---------------------------------------------------------------------- C8
\* the text has a second line / the second line of the text
HasSecondLine(s) == \E i \in 1..Len(s) : s[i] = NL
SecondLine(s) ==
    LET i == CHOOSE k \in 1..Len(s) : s[k] = NL /\ \A j \in 1..(k - 1) : s[j] # NL
        ends == {k \in (i + 1)..Len(s) : s[k] = NL}
        j == IF ends = {} THEN Len(s) + 1
             ELSE CHOOSE k \in ends : \A m \in ends : k <= m
    IN  SubSeq(s, i + 1, j - 1)
\* the text without the white space at its ends
Stripped(s) ==
    LET inked == {k \in 1..Len(s) : s[k] \notin WhiteSpace}
    IN  IF inked = {} THEN <<>>
        ELSE SubSeq(s, CHOOSE k \in inked : \A m \in inked : k <= m,
                       CHOOSE k \in inked : \A m \in inked : k >= m)
\* 'at ' stands at position i of the text, a token right after it
MarkerAt(s, i) ==
    /\ i + 3 <= Len(s)
    /\ SubSeq(s, i, i + 2) = <<"a", "t", " ">>
    /\ s[i + 3] \notin WhiteSpace
\* the token after the first such marker
TokenAfterMarker(s) ==
    LET i == CHOOSE k \in 1..Len(s) : MarkerAt(s, k) /\ \A j \in 1..(k - 1) : ~MarkerAt(s, j)
        stops == {k \in (i + 3)..Len(s) : s[k] \in WhiteSpace}
        j == IF stops = {} THEN Len(s) + 1
             ELSE CHOOSE k \in stops : \A m \in stops : k <= m
    IN  SubSeq(s, i + 3, j - 1)
\* what the frame gives as the function
FunctionOfFrame(frame) ==
    IF \E i \in 1..Len(frame) : MarkerAt(frame, i)
    THEN TokenAfterMarker(frame)
    ELSE Unknown

\* a failure tuple whose location and function are the diagnostic's
Diagnosed(c) ==
    /\ pc[c] = "done" /\ Failing(c) /\ Returned(c)
    /\ KeysOf(additionalContext[c]) \cap {"stack", "location", "function"} = {}

\* C8 as stated: err.location is the second line of the trace text, and the
\* sentinel exactly when the trace has no second line; err.function is the
\* token after 'at ' in that frame, 'unknown' when the frame has none.
OriginExtractionAsStated ==
    \A c \in Calls :
        Diagnosed(c) =>
            LET err == TupleOf(c)[2].props
                trace == err["stack"].s
                frame == IF HasSecondLine(trace) THEN SecondLine(trace)
                         ELSE LocationNotFound
            IN  /\ err["location"] = Str(frame)
                /\ (err["location"] = Str(LocationNotFound)) <=> ~HasSecondLine(trace)
                /\ err["function"] = Str(FunctionOfFrame(frame))

\* C8, amended: err.location is the second line of the trace text without
\* the white space at its ends, and the sentinel is put in its place
\* exactly when the trace has no second line or that line holds nothing but
\* white space; err.function is the run of characters that are not white
\* space right after the first 'at ' of err.location that such a character
\* follows, and 'unknown' when err.location has no such 'at '.
OriginExtraction ==
    \A c \in Calls :
        Diagnosed(c) =>
            LET err == TupleOf(c)[2].props
                trace == err["stack"].s
                blank == ~HasSecondLine(trace) \/ Stripped(SecondLine(trace)) = <<>>
                frame == IF blank THEN LocationNotFound
                         ELSE Stripped(SecondLine(trace))
            IN  /\ err["location"] = Str(frame)
                /\ (err["location"] = Str(LocationNotFound)) <=> blank
                /\ err["function"] = Str(FunctionOfFrame(frame))

\* a trace whose second line is indented and names a function: the location
\* is the line without the indentation, the function its token
OriginExtractionWitness ==
    \E c \in Calls :
        /\ Diagnosed(c)
        /\ TupleOf(c)[2].props["stack"] = Str(<<NL, " ", "a", "t", " ", "t">>)
        /\ TupleOf(c)[2].props["location"] = Str(<<"a", "t", " ", "t">>)
        /\ TupleOf(c)[2].props["function"] = Str(<<"t">>)

\* ---------------------------------------------------------------------- C9
\* C9: a call invokes its producer exactly once, after the start mark and
\* the timestamp are captured: never before line 68, once from then on,
\* whatever the outcome; and exactly one of the success path and the failure
\* path has executed when the call is done.
SingleInvocation ==
    \A c \in Calls :
        /\ invocations[c] = (IF pc[c] \in {"idle", "L68"} THEN 0 ELSE 1)
        /\ invocations[c] > 0 => timestamp[c] = ToISOString(start[c])
        /\ pc[c] # "done" => path[c] = {}
        /\ pc[c] = "done" =>
               path[c] = (IF fn[c].mode = "resolve" THEN {"success"} ELSE {"failure"})

\* a call whose producer failed is done, with one invocation made
SingleInvocationWitness ==
    \E c \in Calls :
        /\ pc[c] = "done"
        /\ Failing(c)
        /\ Returned(c)
        /\ invocations[c] = 1

\* --------------------------------------------------------------------- C10
\* C10: the promise tryState returned settles only once the producer's
\* promise has settled (or the producer threw in place of returning one),
\* and once the producer's promise has settled and the continuation has run
\* the call has returned its tuple.
AwaitToCompletion ==
    \A c \in Calls :
        /\ Settled(ret[c]) => (Settled(awaited[c]) \/ fn[c].mode = "throw")
        /\ (pc[c] = "done" /\ Settled(awaited[c])) => Returned(c)

=============================================================================
